---- MODULE Spec2Model ----
(***************************************************************************)
(* Model of the chess legality engine of Armin-Ariamajd/Chessy,            *)
(* class ChessGame in src/chess/game.py.                                   *)
(*                                                                         *)
(* The operators of Part 1 are translated statement by statement from      *)
(* game.py, with numpy's semantics: an index tuple with a component in     *)
(* -8..-1 wraps around, a component outside -8..7 raises IndexError,       *)
(* np.ndarray([s]) on a tuple s raises TypeError (a tuple is no            *)
(* dimension), and indexing with a slice whose step is 0 raises ValueError.*)
(* The body of the `if` on line 246 of game.py is empty; it is read as a   *)
(* statement without effect.                                               *)
(*                                                                         *)
(* ChessGame._update_game_state is called on line 106 but is defined       *)
(* nowhere in the sources, and no piece-movement rules exist in the        *)
(* sources.  Part 2 models them from the specification (sections 3, 4.1    *)
(* to 4.5).                                                                *)
(***************************************************************************)
EXTENDS Integers, Sequences, FiniteSets, TLC

VARIABLES
    board,                  \* self._board: square -> piece code
    turn,                   \* self._turn: 1 white, -1 black
    can_castle,             \* self._can_castle rows 1 (white) and -1 (black)
    enpassant,              \* self._enpassant
    fifty_move_draw_count,  \* self._fifty_move_draw_count
    game_over,              \* self._game_over
    score,                  \* self._score
    call,                   \* the last call made on the object and how it ended
    plies                   \* number of plies played

vars == <<board, turn, can_castle, enpassant, fifty_move_draw_count, game_over,
          score, call, plies>>

----------------------------------------------------------------------------
(* Bounds of the exploration *)

\* arguments of move are drawn from -(8 + Margin) .. (7 + Margin)
Margin == 1
\* number of plies played in SpecPlay
MaxPly == 4
\* number of plies played in SpecRooks
MaxRookPly == 7
\* number of plies played in SpecMate
MaxMatePly == 5

----------------------------------------------------------------------------
(* Part 1: src/chess/game.py *)

Rows == 0..7
Squares == Rows \X Rows

Abs(x) == IF x < 0 THEN -x ELSE x
Sign(x) == IF x > 0 THEN 1 ELSE IF x < 0 THEN -1 ELSE 0
Min2(a, b) == IF a < b THEN a ELSE b

\* ChessGame.new_board
new_board ==
    LET back == <<4, 2, 3, 5, 6, 3, 2, 4>>
    IN [s \in Squares |->
            CASE s[1] = 0 -> back[s[2] + 1]
              [] s[1] = 1 -> 1
              [] s[1] = 6 -> -1
              [] s[1] = 7 -> -back[s[2] + 1]
              [] OTHER -> 0]

\* The fields of the object as one value.
Game(b, t, cc, ep, fm, go, sc) ==
    [board |-> b, turn |-> t, can_castle |-> cc, enpassant |-> ep,
     fifty_move_draw_count |-> fm, game_over |-> go, score |-> sc]

Cur == Game(board, turn, can_castle, enpassant, fifty_move_draw_count, game_over, score)

\* ChessGame.__init__
NewGame ==
    Game(new_board, 1, [p \in {1, -1} |-> <<1, 1>>], -1, 0, FALSE, 0)

\* numpy indexing of an axis of length 8
Indexable(s) == s[1] \in -8..7 /\ s[2] \in -8..7
Wrap(i) == IF i < 0 THEN i + 8 ELSE i
At(b, s) == b[<<Wrap(s[1]), Wrap(s[2])>>]

\* The value or the exception an expression of the code ends in.
Val(v) == [raised |-> "none", value |-> v]
Raise(e) == [raised |-> e, value |-> FALSE]

square_is_empty(b, s) == At(b, s) = 0

square_belongs_to_current_player(b, t, s) == t = Sign(At(b, s))

\* squares_are_inside_board on a 2-tuple: np.ndarray([s]) takes [s] as a shape
squares_are_inside_board_tuple(s) == Raise("TypeError")

\* squares_are_inside_board on one row of a 2d array
squares_are_inside_board(s) == s[1] < 8 /\ s[1] > -1 /\ s[2] < 8 /\ s[2] > -1

\* Number of indices a Python slice(start, stop, step) selects on an axis of length 8
SliceLen(start, stop, step) ==
    IF step > 0
    THEN LET clip(x) == LET y == IF x < 0 THEN x + 8 ELSE x
                        IN IF y < 0 THEN 0 ELSE IF y > 8 THEN 8 ELSE y
             n == clip(stop) - clip(start)
         IN IF n > 0 THEN n ELSE 0
    ELSE LET clip(x) == LET y == IF x < 0 THEN x + 8 ELSE x
                        IN IF y < 0 THEN -1 ELSE IF y > 7 THEN 7 ELSE y
             n == clip(start) - clip(stop)
         IN IF n > 0 THEN n ELSE 0

\* ChessGame.nearest_piece_in_direction
nearest_piece_in_direction(b, s, d) ==
    IF d[1] = 0 \/ d[2] = 0
    THEN Raise("ValueError")    \* the slice of the axis with d[i] = 0 has step 0
    ELSE LET edge(i) == IF d[i] = 1 THEN 7 - s[i] ELSE s[i]
             d_edge == Min2(edge(1), edge(2))
             len(i) == SliceLen(s[i] + d[i], s[i] + d[i] + d[i] * d_edge, d[i])
             n == Min2(len(1), len(2))
             sq(k) == <<s[1] + d[1] * k, s[2] + d[2] * k>>
             hits == {k \in 1..n : At(b, sq(k)) # 0}
         IN IF hits = {} THEN Val(0)
            ELSE Val(At(b, sq(CHOOSE k \in hits : \A j \in hits : k <= j)))

\* np.argwhere(self._board == piece)
Where(b, piece) == {q \in Squares : b[q] = piece}

\* np.abs(king_pos - s).max() == 1
KingAdjacent(b, king, s) ==
    LET ds == {Abs(q[i] - s[i]) : q \in Where(b, king), i \in 1..2}
    IN ds # {} /\ (\A x \in ds : x <= 1) /\ 1 \in ds

\* ChessGame.square_is_attacked_orthogonal
square_is_attacked_orthogonal(b, t, s) ==
    LET dirs == <<(<<1, 0>>), (<<-1, 0>>), (<<0, 1>>), (<<0, -1>>)>>
        res == [i \in 1..4 |-> nearest_piece_in_direction(b, s, dirs[i])]
        ortho_neighbors == {res[i].value : i \in 1..4}
    IN IF \E i \in 1..4 : res[i].raised # "none"
       THEN Raise((res[CHOOSE i \in 1..4 : res[i].raised # "none" /\
                        \A j \in 1..(i - 1) : res[j].raised = "none"]).raised)
       ELSE IF -t * 4 \in ortho_neighbors \/ -t * 5 \in ortho_neighbors THEN Val(TRUE)
       ELSE IF -t * 6 \in ortho_neighbors /\ KingAdjacent(b, -t * 6, s) THEN Val(TRUE)
       ELSE Val(FALSE)

\* ChessGame.square_is_attacked_diagonal
square_is_attacked_diagonal(b, t, s) ==
    LET dirs == <<(<<t, 1>>), (<<t, -1>>), (<<-t, 1>>), (<<-t, -1>>)>>
        res == [i \in 1..4 |-> nearest_piece_in_direction(b, s, dirs[i])]
        diag_neighbors == {res[i].value : i \in 1..4}
    IN IF \E i \in 1..4 : res[i].raised # "none"
       THEN Raise((res[CHOOSE i \in 1..4 : res[i].raised # "none"]).raised)
       ELSE IF -t * 3 \in diag_neighbors \/ -t * 5 \in diag_neighbors THEN Val(TRUE)
       ELSE IF -t * 6 \in diag_neighbors /\ KingAdjacent(b, -t * 6, s) THEN Val(TRUE)
       ELSE Val(FALSE)     \* the pawn test of line 246 has no body

knight_moves ==
    {<<2, 1>>, <<2, -1>>, <<1, 2>>, <<1, -2>>, <<-1, 2>>, <<-1, -2>>, <<-2, 1>>, <<-2, -1>>}

\* square_is_attacked_by_knight indexing the board with every end square numpy can
\* index, the mask of squares_are_inside_board left out
square_is_attacked_by_knight_unmasked(b, t, s) ==
    LET knight_pos == {<<s[1] + m[1], s[2] + m[2]>> : m \in knight_moves}
    IN \E q \in {k \in knight_pos : Indexable(k)} : At(b, q) = -t * 2

\* ChessGame.square_is_attacked_by_knight
square_is_attacked_by_knight(b, t, s) ==
    LET knight_pos == {<<s[1] + m[1], s[2] + m[2]>> : m \in knight_moves}
        inboard_knight_pos == {q \in knight_pos : squares_are_inside_board(q)}
    IN \E q \in inboard_knight_pos : b[q] = -t * 2

\* ChessGame.square_is_attacked_by_opponent
square_is_attacked_by_opponent(b, t, s) ==
    IF square_is_attacked_by_knight(b, t, s) THEN Val(TRUE)
    ELSE LET o == square_is_attacked_orthogonal(b, t, s)
         IN IF o.raised # "none" \/ o.value THEN o
            ELSE square_is_attacked_diagonal(b, t, s)

\* ChessGame.move_breaks_absolute_pin: `pass`, the call yields None
move_breaks_absolute_pin(b, t, s0, s1) == Val(FALSE)

\* ChessGame.move_results_in_own_check
move_results_in_own_check(b, t, s0, s1) ==
    IF Abs(At(b, s0)) = 6
    THEN square_is_attacked_by_opponent(b, t, s1)
    ELSE move_breaks_absolute_pin(b, t, s0, s1)

\* The ways raise_for_illegal_move raises IllegalMoveError
IllegalMoveError ==
    {"EmptyOrigin", "WrongTurn", "DestinationOccupiedBySelf", "OutOfBounds",
     "IllegalPieceMovement", "BlockedPath", "CastlingUnavailable",
     "CastlingPathAttacked", "ResultsInOwnCheck"}

\* raise_for_illegal_move with the test of the end square made before the test of
\* the turn
raise_for_illegal_move_end_first(b, t, s0, s1) ==
    IF ~Indexable(s0) THEN "IndexError"
    ELSE IF square_is_empty(b, s0) THEN "EmptyOrigin"
    ELSE IF ~Indexable(s1) THEN "IndexError"
    ELSE IF square_belongs_to_current_player(b, t, s1) THEN "DestinationOccupiedBySelf"
    ELSE IF ~square_belongs_to_current_player(b, t, s0) THEN "WrongTurn"
    ELSE squares_are_inside_board_tuple(s0).raised

\* ChessGame.raise_for_illegal_move: "ok", a kind of IllegalMoveError, or the
\* exception of another type that ends the call
raise_for_illegal_move(b, t, s0, s1) ==
    IF ~Indexable(s0) THEN "IndexError"
    ELSE IF square_is_empty(b, s0) THEN "EmptyOrigin"
    ELSE IF ~square_belongs_to_current_player(b, t, s0) THEN "WrongTurn"
    ELSE IF ~Indexable(s1) THEN "IndexError"
    ELSE IF square_belongs_to_current_player(b, t, s1) THEN "DestinationOccupiedBySelf"
    ELSE LET in0 == squares_are_inside_board_tuple(s0)
             in1 == squares_are_inside_board_tuple(s1)
             chk == move_results_in_own_check(b, t, s0, s1)
         IN IF in0.raised # "none" THEN in0.raised
            ELSE IF ~in0.value THEN "OutOfBounds"
            ELSE IF in1.raised # "none" THEN in1.raised
            ELSE IF ~in1.value THEN "OutOfBounds"
            ELSE IF chk.raised # "none" THEN chk.raised
            ELSE IF chk.value THEN "ResultsInOwnCheck"
            ELSE "ok"

----------------------------------------------------------------------------
(* Part 2: the parts of the engine that the sources call or name but do    *)
(* not contain, after sections 3, 4.1 to 4.5 of the specification.         *)

OnBoard(s) == s[1] \in Rows /\ s[2] \in Rows

Plus(s, d, k) == <<s[1] + k * d[1], s[2] + k * d[2]>>

OrthoDirs == {<<1, 0>>, <<-1, 0>>, <<0, 1>>, <<0, -1>>}
DiagDirs == {<<1, 1>>, <<1, -1>>, <<-1, 1>>, <<-1, -1>>}

\* 4.1 RayScanner: the nearest occupant from s in direction d, 0 if none
nearest_occupant(b, s, d) ==
    LET hits == {k \in 1..7 : OnBoard(Plus(s, d, k)) /\ b[Plus(s, d, k)] # 0}
    IN IF hits = {} THEN 0
       ELSE b[Plus(s, d, CHOOSE k \in hits : \A j \in hits : k <= j)]

\* 4.2 AttackDetector: whether a piece of side `by` attacks square s
is_attacked(b, s, by) ==
    \/ \E m \in knight_moves : OnBoard(Plus(s, m, 1)) /\ b[Plus(s, m, 1)] = by * 2
    \/ \E d \in OrthoDirs : nearest_occupant(b, s, d) \in {by * 4, by * 5}
    \/ \E d \in DiagDirs : nearest_occupant(b, s, d) \in {by * 3, by * 5}
    \/ \E d \in OrthoDirs \cup DiagDirs :
            OnBoard(Plus(s, d, 1)) /\ b[Plus(s, d, 1)] = by * 6
    \/ \E dc \in {1, -1} :
            OnBoard(<<s[1] - by, s[2] + dc>>) /\ b[<<s[1] - by, s[2] + dc>>] = by

king_square(b, side) == CHOOSE q \in Squares : b[q] = side * 6

in_check(b, side) ==
    (\E q \in Squares : b[q] = side * 6) /\ is_attacked(b, king_square(b, side), -side)

home_row(side) == IF side = 1 THEN 0 ELSE 7
pawn_row(side) == IF side = 1 THEN 1 ELSE 6

\* the squares strictly between s0 and s1 on a common line
Between(s0, s1) ==
    LET dr == s1[1] - s0[1]
        dc == s1[2] - s0[2]
        n == IF Abs(dr) > Abs(dc) THEN Abs(dr) ELSE Abs(dc)
    IN {Plus(s0, <<Sign(dr), Sign(dc)>>, k) : k \in 1..(n - 1)}

is_castling(b, s0, s1) ==
    Abs(b[s0]) = 6 /\ s0[1] = s1[1] /\ Abs(s1[2] - s0[2]) = 2

is_enpassant_capture(b, s0, s1) ==
    Abs(b[s0]) = 1 /\ s0[2] # s1[2] /\ b[s1] = 0

\* a pawn advance of any length taken for a double advance
is_double_advance_any(b, s0, s1) ==
    Abs(b[s0]) = 1 /\ Abs(s1[1] - s0[1]) >= 1

is_double_advance(b, s0, s1) ==
    Abs(b[s0]) = 1 /\ Abs(s1[1] - s0[1]) = 2

is_promotion(b, s0, s1) ==
    Abs(b[s0]) = 1 /\ s1[1] = home_row(-Sign(b[s0]))

\* 4.4 step 5: pawn
pawn_movement(g, s0, s1) ==
    LET b == g.board
        t == g.turn
        dr == s1[1] - s0[1]
        dc == s1[2] - s0[2]
    IN IF dc = 0 /\ dr = t
       THEN IF b[s1] = 0 THEN "ok" ELSE "BlockedPath"
       ELSE IF dc = 0 /\ dr = 2 * t /\ s0[1] = pawn_row(t)
       THEN IF b[s1] = 0 /\ b[<<s0[1] + t, s0[2]>>] = 0 THEN "ok" ELSE "BlockedPath"
       ELSE IF Abs(dc) = 1 /\ dr = t
       THEN IF Sign(b[s1]) = -t THEN "ok"
            ELSE IF /\ b[s1] = 0
                    /\ g.enpassant = s1[2]
                    /\ s0[1] = pawn_row(-t) - 2 * t
                    /\ b[<<s0[1], s1[2]>>] = -t
                 THEN "ok"
                 ELSE "IllegalPieceMovement"
       ELSE "IllegalPieceMovement"

\* 4.4 step 5: bishop, rook, queen
slider_movement(g, s0, s1, dirs) ==
    LET dr == s1[1] - s0[1]
        dc == s1[2] - s0[2]
    IN IF ~(<<Sign(dr), Sign(dc)>> \in dirs /\ (dr = 0 \/ dc = 0 \/ Abs(dr) = Abs(dc)))
       THEN "IllegalPieceMovement"
       ELSE IF \E q \in Between(s0, s1) : g.board[q] # 0 THEN "BlockedPath"
       ELSE "ok"

\* 4.4 step 6: castling
castling_movement(g, s0, s1) ==
    LET b == g.board
        t == g.turn
        kingside == s1[2] > s0[2]
        rook == <<s0[1], IF kingside THEN 7 ELSE 0>>
        path == {s0, s1, <<s0[1], (s0[2] + s1[2]) \div 2>>}
    IN IF \/ s0 # <<home_row(t), 4>>
          \/ g.can_castle[t][IF kingside THEN 1 ELSE 2] # 1
          \/ b[rook] # t * 4
          \/ \E q \in Between(s0, rook) : b[q] # 0
       THEN "CastlingUnavailable"
       ELSE IF \E q \in path : is_attacked(b, q, -t) THEN "CastlingPathAttacked"
       ELSE "ok"

\* 4.4 steps 5 and 6
piece_movement(g, s0, s1) ==
    LET p == Abs(g.board[s0])
        dr == Abs(s1[1] - s0[1])
        dc == Abs(s1[2] - s0[2])
    IN CASE p = 1 -> pawn_movement(g, s0, s1)
         [] p = 2 -> IF <<s1[1] - s0[1], s1[2] - s0[2]>> \in knight_moves
                     THEN "ok" ELSE "IllegalPieceMovement"
         [] p = 3 -> slider_movement(g, s0, s1, DiagDirs)
         [] p = 4 -> slider_movement(g, s0, s1, OrthoDirs)
         [] p = 5 -> slider_movement(g, s0, s1, OrthoDirs \cup DiagDirs)
         [] OTHER -> IF dr <= 1 /\ dc <= 1 THEN "ok"
                     ELSE IF dr = 0 /\ dc = 2 THEN castling_movement(g, s0, s1)
                     ELSE "IllegalPieceMovement"

\* 4.5 StateTransition: the board after the move (pp: the promotion piece)
apply_board(b, s0, s1, pp) ==
    LET p == b[s0]
        t == Sign(p)
        kingside == s1[2] > s0[2]
    IN [q \in Squares |->
            IF q = s0 THEN 0
            ELSE IF q = s1 THEN (IF is_promotion(b, s0, s1) THEN t * pp ELSE p)
            ELSE IF is_enpassant_capture(b, s0, s1) /\ q = <<s0[1], s1[2]>> THEN 0
            ELSE IF is_castling(b, s0, s1) /\ q = <<s0[1], IF kingside THEN 7 ELSE 0>> THEN 0
            ELSE IF is_castling(b, s0, s1) /\ q = <<s0[1], IF kingside THEN 5 ELSE 3>> THEN t * 4
            ELSE b[q]]

\* 4.4 LegalityChecker.validate: "ok" or the kind of the rejection
validate(g, s0, s1) ==
    LET b == g.board
        t == g.turn
    IN IF ~OnBoard(s0) THEN "OutOfBounds"
       ELSE IF b[s0] = 0 THEN "EmptyOrigin"
       ELSE IF Sign(b[s0]) # t THEN "WrongTurn"
       ELSE IF ~OnBoard(s1) THEN "OutOfBounds"
       ELSE IF Sign(b[s1]) = t THEN "DestinationOccupiedBySelf"
       ELSE LET m == piece_movement(g, s0, s1)
            IN IF m # "ok" THEN m
               ELSE IF in_check(apply_board(b, s0, s1, 5), t) THEN "ResultsInOwnCheck"
               ELSE "ok"

has_legal_move(g) ==
    \E s0 \in Squares : Sign(g.board[s0]) = g.turn /\
        \E s1 \in Squares : validate(g, s0, s1) = "ok"

\* castling rights read off the places of king and rook after the move
castling_after_by_place(g, s0, s1) ==
    LET b == apply_board(g.board, s0, s1, 5)
    IN [side \in {1, -1} |->
            [wing \in 1..2 |->
                IF /\ b[<<home_row(side), 4>>] = side * 6
                   /\ b[<<home_row(side), IF wing = 1 THEN 7 ELSE 0>>] = side * 4
                THEN 1 ELSE 0]]

\* 3 CastlingRights after the move
castling_after(g, s0, s1) ==
    LET b == g.board
        t == g.turn
        lost(side, wing) ==
            LET corner == <<home_row(side), IF wing = 1 THEN 7 ELSE 0>>
            IN \/ side = t /\ Abs(b[s0]) = 6
               \/ side = t /\ s0 = corner /\ b[s0] = t * 4
               \/ side = -t /\ s1 = corner /\ b[s1] = -t * 4
    IN [side \in {1, -1} |->
            [wing \in 1..2 |-> IF lost(side, wing) THEN 0 ELSE g.can_castle[side][wing]]]

\* plies without capture or pawn move after which the game is drawn
FiftyMoveLimit == 100

\* update_game_state counting a capture like any other move
update_game_state_no_reset(g, s0, s1, pp) ==
    LET b == g.board
        t == g.turn
        count == IF Abs(b[s0]) = 1 THEN 0 ELSE g.fifty_move_draw_count + 1
        moved == Game(apply_board(b, s0, s1, pp), -t, castling_after(g, s0, s1),
                      IF is_double_advance(b, s0, s1) THEN s0[2] ELSE -1,
                      count, FALSE, 0)
    IN IF count >= FiftyMoveLimit THEN [moved EXCEPT !.game_over = TRUE, !.score = 0]
       ELSE IF has_legal_move(moved) THEN moved
       ELSE IF in_check(moved.board, -t)
            THEN [moved EXCEPT !.game_over = TRUE, !.score = t]
            ELSE [moved EXCEPT !.game_over = TRUE, !.score = 0]

\* ChessGame._update_game_state, after 4.5 StateTransition.apply
update_game_state(g, s0, s1, pp) ==
    LET b == g.board
        t == g.turn
        capture == b[s1] # 0 \/ is_enpassant_capture(b, s0, s1)
        count == IF capture \/ Abs(b[s0]) = 1 THEN 0 ELSE g.fifty_move_draw_count + 1
        moved == Game(apply_board(b, s0, s1, pp), -t, castling_after(g, s0, s1),
                      IF is_double_advance(b, s0, s1) THEN s0[2] ELSE -1,
                      count, FALSE, 0)
    IN IF count >= FiftyMoveLimit THEN [moved EXCEPT !.game_over = TRUE, !.score = 0]
       ELSE IF has_legal_move(moved) THEN moved
       ELSE IF in_check(moved.board, -t)
            THEN [moved EXCEPT !.game_over = TRUE, !.score = t]
            ELSE [moved EXCEPT !.game_over = TRUE, !.score = 0]

----------------------------------------------------------------------------
(* The operations *)

\* move passing the turn before the move is validated
move_turn_first(verdict, g, s0, s1, pp) ==
    IF g.game_over
    THEN [next |-> g, raised |-> "none", returned |-> {g.score}]
    ELSE IF verdict # "ok"
    THEN [next |-> [g EXCEPT !.turn = -g.turn], raised |-> verdict, returned |-> {}]
    ELSE LET n == update_game_state(g, s0, s1, pp)
         IN [next |-> n, raised |-> "none",
             returned |-> IF n.game_over THEN {n.score} ELSE {}]

\* move validating the move whether or not the game is over
move_validate_first(verdict, g, s0, s1, pp) ==
    IF verdict # "ok"
    THEN [next |-> g, raised |-> verdict, returned |-> {}]
    ELSE IF g.game_over
    THEN [next |-> g, raised |-> "none", returned |-> {g.score}]
    ELSE LET n == update_game_state(g, s0, s1, pp)
         IN [next |-> n, raised |-> "none",
             returned |-> IF n.game_over THEN {n.score} ELSE {}]

\* move without the test of game_over that follows the update
move_no_final_return(verdict, g, s0, s1, pp) ==
    IF g.game_over
    THEN [next |-> g, raised |-> "none", returned |-> {g.score}]
    ELSE IF verdict # "ok"
    THEN [next |-> g, raised |-> verdict, returned |-> {}]
    ELSE [next |-> update_game_state(g, s0, s1, pp), raised |-> "none", returned |-> {}]

\* ChessGame.move, given how raise_for_illegal_move ended: the fields after the
\* call, the exception it raised and the value it returned ({} for None)
move(verdict, g, s0, s1, pp) ==
    IF g.game_over
    THEN [next |-> g, raised |-> "none", returned |-> {g.score}]
    ELSE IF verdict # "ok"
    THEN [next |-> g, raised |-> verdict, returned |-> {}]
    ELSE LET n == update_game_state(g, s0, s1, pp)
         IN [next |-> n, raised |-> "none",
             returned |-> IF n.game_over THEN {n.score} ELSE {}]

\* the squares a caller may name: on the board, wrapping, or out of range
ArgRange == (-(8 + Margin))..(7 + Margin)
ArgSquares == ArgRange \X ArgRange

\* the squares the players of SpecPlay name: the first four ranks of the files
\* e to h, and d8, e7, e6, e5
PlaySquares ==
    {s \in Squares : s[1] <= 3 /\ s[2] >= 4} \cup {<<7, 3>>, <<6, 4>>, <<5, 4>>, <<4, 4>>}

\* the squares the players of SpecShuffle name: g1, f3, e5, f6, e7, g8
ShuffleSquares == {<<0, 6>>, <<2, 5>>, <<4, 4>>, <<5, 5>>, <<6, 4>>, <<7, 6>>}

\* the squares the players of SpecRooks name:
\* g1, h1, f3, e5, g5, f6, h6, f7, e8, g8, h8
RookSquares ==
    {<<0, 6>>, <<0, 7>>, <<2, 5>>, <<4, 4>>, <<4, 6>>, <<5, 5>>, <<5, 7>>, <<6, 5>>,
     <<7, 4>>, <<7, 6>>, <<7, 7>>}

\* the squares the players of SpecMate name: d1, e2, f2, g2, f3, e4, g4, h4,
\* e5, g5, h5, f6, e7, f7, g7, d8
MateSquares ==
    {<<0, 3>>, <<1, 4>>, <<1, 5>>, <<1, 6>>, <<2, 5>>, <<3, 4>>, <<3, 6>>, <<3, 7>>,
     <<4, 4>>, <<4, 6>>, <<4, 7>>, <<5, 5>>, <<6, 4>>, <<6, 5>>, <<6, 6>>, <<7, 3>>}

\* The positions on which the attack tests are asked: the starting position, and
\* the two kings on e1 and e8 with one piece (any man of either side on d4, b8 or
\* g1) and at most one knight of either side on f6 or f4.
ProbeCodes == {c \in -5..5 : c # 0}
ProbeSquares == {<<3, 3>>, <<7, 1>>, <<0, 6>>}
BlockCodes == {0, 2, -2}
BlockSquares == {<<5, 5>>, <<3, 5>>}

bare_board == [q \in Squares |-> IF q = <<0, 4>> THEN 6 ELSE IF q = <<7, 4>> THEN -6 ELSE 0]

AttackBoards ==
    {new_board} \cup
    {[bare_board EXCEPT ![q1] = x, ![q2] = y] :
        <<x, q1>> \in {xq \in ProbeCodes \X ProbeSquares :
                          ~(Abs(xq[1]) = 1 /\ xq[2][1] \in {0, 7})},
        y \in BlockCodes, q2 \in BlockSquares}

\* arguments of the calls made after the end of the game
OverSquares == {<<0, 0>>, <<1, 4>>, <<7, 7>>, <<-1, 3>>, <<8, 8>>}

Promotions(s0, s1) == IF is_promotion(board, s0, s1) THEN 2..5 ELSE {0}

Set(g) ==
    /\ board' = g.board
    /\ turn' = g.turn
    /\ can_castle' = g.can_castle
    /\ enpassant' = g.enpassant
    /\ fifty_move_draw_count' = g.fifty_move_draw_count
    /\ game_over' = g.game_over
    /\ score' = g.score

Called(s0, s1, r) ==
    [op |-> "move", s0 |-> s0, s1 |-> s1, raised |-> r.raised, returned |-> r.returned]

\* no call is under way
NoCall == [op |-> "none", s0 |-> <<0, 0>>, s1 |-> <<0, 0>>, raised |-> "none",
           returned |-> {}]

Init ==
    /\ board = NewGame.board
    /\ turn = NewGame.turn
    /\ can_castle = NewGame.can_castle
    /\ enpassant = NewGame.enpassant
    /\ fifty_move_draw_count = NewGame.fifty_move_draw_count
    /\ game_over = NewGame.game_over
    /\ score = NewGame.score
    /\ call = NoCall
    /\ plies = 0

\* a call of move on the object as the sources have it
CodeMove ==
    /\ call.op = "none"
    /\ \E s0 \in ArgSquares, s1 \in ArgSquares :
        /\ LET r == move(raise_for_illegal_move(board, turn, s0, s1), Cur, s0, s1, 5)
           IN Set(r.next) /\ call' = Called(s0, s1, r)
        /\ plies' = plies

\* the caller has taken the value or the exception of the call
Return ==
    /\ call.op = "move"
    /\ call' = NoCall
    /\ UNCHANGED <<board, turn, can_castle, enpassant, fifty_move_draw_count,
                   game_over, score, plies>>

\* a call of move that is accepted, validation and transition after the specification
Play(from, counted) ==
    /\ ~game_over
    /\ \E s0 \in from, s1 \in from :
        /\ validate(Cur, s0, s1) = "ok"
        /\ \E pp \in Promotions(s0, s1) :
              LET r == move(validate(Cur, s0, s1), Cur, s0, s1, pp)
              IN Set(r.next) /\ call' = Called(s0, s1, r)
        /\ plies' = plies + counted

\* a move of a game of at most MaxPly plies
PlayMove == plies < MaxPly /\ Play(PlaySquares, 1)

\* a move of a game of any length among the squares of ShuffleSquares
ShuffleMove == Play(ShuffleSquares, 0)

\* a move of a game of at most MaxRookPly plies among the squares of RookSquares
RookMove == plies < MaxRookPly /\ Play(RookSquares, 1)

\* a move of a game of at most MaxMatePly plies among the squares of MateSquares
MateMove == plies < MaxMatePly /\ Play(MateSquares, 1)

\* a call of move after the game has ended
CallAfterEnd ==
    /\ game_over
    /\ \E s0 \in OverSquares, s1 \in OverSquares :
        /\ LET r == move(validate(Cur, s0, s1), Cur, s0, s1, 0)
           IN Set(r.next) /\ call' = Called(s0, s1, r)
        /\ plies' = plies

\* a position of AttackBoards with a side to move; the side that has just moved
\* is not in check, and the starting position has white to move
InitAttack ==
    /\ board \in AttackBoards
    /\ turn \in {1, -1}
    /\ ~in_check(board, -turn)
    /\ board = new_board => turn = 1
    /\ can_castle = IF board = new_board THEN NewGame.can_castle
                    ELSE [p \in {1, -1} |-> <<0, 0>>]
    /\ enpassant = NewGame.enpassant
    /\ fifty_move_draw_count = NewGame.fifty_move_draw_count
    /\ game_over = NewGame.game_over
    /\ score = NewGame.score
    /\ call = NoCall
    /\ plies = 0

\* a call of a method that only reads the board: its arguments, the exception it
\* raised and the value it returned
Asked(op, s, d, r) ==
    /\ call' = [op |-> op, s0 |-> s, s1 |-> d, raised |-> r.raised,
                returned |-> IF r.raised = "none" THEN {r.value} ELSE {}]
    /\ UNCHANGED <<board, turn, can_castle, enpassant, fifty_move_draw_count,
                   game_over, score, plies>>

AskNearestPiece ==
    /\ call.op = "none"
    /\ \E s \in Squares, d \in OrthoDirs \cup DiagDirs :
          Asked("nearest_piece_in_direction", s, d, nearest_piece_in_direction(board, s, d))

AskKnight ==
    /\ call.op = "none"
    /\ \E s \in Squares :
          Asked("square_is_attacked_by_knight", s, s,
                Val(square_is_attacked_by_knight(board, turn, s)))

AskOrthogonal ==
    /\ call.op = "none"
    /\ \E s \in Squares :
          Asked("square_is_attacked_orthogonal", s, s,
                square_is_attacked_orthogonal(board, turn, s))

AskDiagonal ==
    /\ call.op = "none"
    /\ \E s \in Squares :
          Asked("square_is_attacked_diagonal", s, s,
                square_is_attacked_diagonal(board, turn, s))

Next == CodeMove \/ Return

Spec == Init /\ [][Next]_vars

NextPlay == PlayMove \/ CallAfterEnd

SpecPlay == Init /\ [][NextPlay]_vars

NextRooks == RookMove

SpecRooks == Init /\ [][NextRooks]_vars

NextShuffle == ShuffleMove \/ CallAfterEnd

SpecShuffle == Init /\ [][NextShuffle]_vars

NextAttack == AskNearestPiece \/ AskKnight \/ AskOrthogonal \/ AskDiagonal

SpecAttack == InitAttack /\ [][NextAttack]_vars

NextMate == MateMove \/ CallAfterEnd

SpecMate == Init /\ [][NextMate]_vars

----------------------------------------------------------------------------
(* Properties *)

\* C1: a call of move that is rejected as illegal leaves every field of the game
\* (board, turn, castling rights, en-passant file, fifty-move counter, game-over
\* flag, score) as it was.
C1_RejectionChangesNothing ==
    [][call'.raised \in IllegalMoveError => Cur' = Cur]_vars

C1_Witness ==
    /\ call.op = "move"
    /\ call.raised = "DestinationOccupiedBySelf"
    /\ Cur = NewGame

\* C2: a call of move whose start or end square has a row or a column outside 0..7
\* ends in the out-of-bounds rejection, and in nothing else.
C2_OutOfRangeIsOutOfBounds ==
    (call.op = "move" /\ (~OnBoard(call.s0) \/ ~OnBoard(call.s1)))
        => call.raised = "OutOfBounds"

\* C4: validation reports the first failing test in the order empty start square,
\* wrong turn, end square held by the player to move; only a move passing the
\* three reaches the later tests.
C4_OrderOfTests ==
    (call.op = "move" /\ OnBoard(call.s0)) =>
        LET p == board[call.s0]
            own1 == OnBoard(call.s1) /\ Sign(board[call.s1]) = turn
        IN /\ p = 0 => call.raised = "EmptyOrigin"
           /\ (p # 0 /\ Sign(p) # turn) => call.raised = "WrongTurn"
           /\ (Sign(p) = turn /\ own1) => call.raised = "DestinationOccupiedBySelf"
           /\ (call.raised \notin {"EmptyOrigin", "WrongTurn", "DestinationOccupiedBySelf"}
                  /\ OnBoard(call.s1))
                => (Sign(p) = turn /\ ~own1)

\* a piece of the side not to move sent to a square of the side to move
C4_Witness ==
    /\ call.op = "move"
    /\ call.s0 = <<7, 0>>
    /\ call.s1 = <<0, 0>>
    /\ call.raised = "WrongTurn"

\* the 20 first moves of white: 16 pawn pushes and 4 knight moves
FirstMoves ==
    {<<(<<1, c>>), (<<r, c>>)>> : r \in {2, 3}, c \in Rows}
        \cup {<<(<<0, 1>>), (<<2, 0>>)>>, <<(<<0, 1>>), (<<2, 2>>)>>,
              <<(<<0, 6>>), (<<2, 5>>)>>, <<(<<0, 6>>), (<<2, 7>>)>>}

\* C5: in the starting position validation accepts exactly the 20 first moves of
\* white and rejects every other pair of squares as illegal.
C5_TwentyFirstMoves ==
    (call.op = "move" /\ Cur = NewGame /\ OnBoard(call.s0) /\ OnBoard(call.s1)) =>
        IF <<call.s0, call.s1>> \in FirstMoves
        THEN call.raised = "none"
        ELSE call.raised \in IllegalMoveError

\* C3: once the game is over, a call of move with any arguments raises nothing,
\* returns the stored score and leaves every field, game_over included, as it was.
C3_GameOverIsFinal ==
    [][game_over =>
          (Cur' = Cur /\ call'.raised = "none" /\ call'.returned = {score})]_vars

\* after a mate of white, a call naming squares outside the board
C3_Witness ==
    /\ game_over
    /\ score = -1
    /\ call.s0 = <<8, 8>>
    /\ call.returned = {-1}

C7_OtherMoveKeepsKingSafe ==
    ~game_over =>
        \A s0 \in Squares : (Sign(board[s0]) = turn /\ Abs(board[s0]) # 6) =>
            \A s1 \in Squares :
                (Sign(board[s1]) # turn /\ piece_movement(Cur, s0, s1) = "ok")
                => move_results_in_own_check(board, turn, s0, s1)
                       = Val(in_check(apply_board(board, s0, s1, 5), turn))

FoolsMate ==
    [new_board EXCEPT ![<<1, 5>>] = 0, ![<<2, 5>>] = 1, ![<<6, 4>>] = 0, ![<<4, 4>>] = -1,
                      ![<<1, 6>>] = 0, ![<<3, 6>>] = 1, ![<<7, 3>>] = 0, ![<<3, 7>>] = -5]

C12_NearestPiece ==
    call.op = "nearest_piece_in_direction" =>
        /\ call.raised = "none"
        /\ call.returned = {nearest_occupant(board, call.s0, call.s1)}

\* C13: square_is_attacked_by_knight(s) is true exactly when a knight of the side
\* not to move stands on a square of the board at an offset (+-1, +-2) or
\* (+-2, +-1) from s; offsets leaving the board do not wrap to the opposite edge.
C13_KnightAttack ==
    call.op = "square_is_attacked_by_knight" =>
        LET offsets == {m \in (-2..2) \X (-2..2) : Abs(m[1]) * Abs(m[2]) = 2}
        IN /\ call.raised = "none"
           /\ call.returned =
                 {\E m \in offsets : /\ OnBoard(Plus(call.s0, m, 1))
                                     /\ board[Plus(call.s0, m, 1)] = -turn * 2}

\* d1 in the starting position: the offset (-1, -2) leaves the board below b1 and
\* the black knight b8 does not attack d1
C13_Witness ==
    /\ call.op = "square_is_attacked_by_knight"
    /\ call.s0 = <<0, 3>>
    /\ turn = 1
    /\ board[<<7, 1>>] = -2
    /\ call.returned = {FALSE}

\* s is attacked along a line of dirs: the nearest occupant in a direction is a
\* piece of the side not to move with a code of codes, or its king next to s
LineAttacked(b, t, s, dirs, codes) ==
    \E d \in dirs :
        LET n == nearest_occupant(b, s, d)
        IN \/ \E c \in codes : n = -t * c
           \/ n = -t * 6 /\ OnBoard(Plus(s, d, 1)) /\ b[Plus(s, d, 1)] = -t * 6

\* s is attacked by a pawn of the side not to move: the pawn stands one row towards
\* its own side of s, one column to the left or right
PawnAttacked(b, t, s) ==
    \E dc \in {1, -1} : OnBoard(<<s[1] + t, s[2] + dc>>) /\ b[<<s[1] + t, s[2] + dc>>] = -t

\* C14: the orthogonal test answers that s is attacked exactly when the nearest
\* occupant in one of the 4 orthogonal directions is an opposing rook or queen, or
\* the opposing king next to s; the diagonal test answers attacked when the nearest
\* occupant in a diagonal direction is an opposing bishop or queen, or the opposing
\* king next to s, and not attacked when there is none of these and no pawn attack.
C14_LineAttacks ==
    /\ call.op = "square_is_attacked_orthogonal" =>
          /\ call.raised = "none"
          /\ call.returned = {LineAttacked(board, turn, call.s0, OrthoDirs, {4, 5})}
    /\ call.op = "square_is_attacked_diagonal" =>
          /\ call.raised = "none"
          /\ LineAttacked(board, turn, call.s0, DiagDirs, {3, 5}) => call.returned = {TRUE}
          /\ (/\ ~LineAttacked(board, turn, call.s0, DiagDirs, {3, 5})
              /\ ~PawnAttacked(board, turn, call.s0)) => call.returned = {FALSE}

\* C15: where no bishop, queen or king attacks s diagonally, the diagonal test
\* answers that s is attacked exactly when a pawn of the side not to move stands
\* diagonally next to s on the side it advances from.
C15_PawnAttacks ==
    (/\ call.op = "square_is_attacked_diagonal"
     /\ ~LineAttacked(board, turn, call.s0, DiagDirs, {3, 5})) =>
        /\ call.raised = "none"
        /\ call.returned = {PawnAttacked(board, turn, call.s0)}

====
